---- MODULE Spec2Model ----
(***************************************************************************)
(* MongoDB Explorer: the two Streamlit scripts mongo.py and                *)
(* updated_pipeline.py, and the collection statistics function             *)
(* get_detailed_collection_stats of updated_pipeline.py.                   *)
(*                                                                         *)
(* Spec       the scripts as state machines: one step is one run of the    *)
(*            script (a widget event, the run it triggers and the rerun    *)
(*            the run may request), over a small fixed store.              *)
(* StatsSpec  get_detailed_collection_stats as a function of its input:    *)
(*            the collection is drawn from a bounded set of samples.       *)
(* RecomputeSpec  the same, with the function applied a second time.       *)
(* AnalysisSpec   the computation of Analyze Field, as a function of the   *)
(*            collection and the field.                                    *)
(* PairSpec   the two scripts side by side, under the same user actions.   *)
(***************************************************************************)
EXTENDS Integers, Sequences, FiniteSets, TLC

VARIABLES
    store,      \* the backing store: database name -> collection name -> collection
    program,    \* which script is running: "updated_pipeline" or "mongo"
    widgets,    \* the values of the sidebar widgets, kept by Streamlit across runs
    session,    \* st.session_state
    screen,     \* what the last run of the script rendered
    report      \* StatsSpec: the outcome of get_detailed_collection_stats

vars == <<store, program, widgets, session, screen, report>>

----------------------------------------------------------------------------
(* Python values.  A value carries its runtime type name, as                *)
(* type(v).__name__ gives it, and a payload.                                *)

None == [t |-> "NoneType", v |-> 0]
IntVal(n) == [t |-> "int", v |-> n]
StrVal(s) == [t |-> "str", v |-> s]
BoolVal(b) == [t |-> "bool", v |-> b]
EmptyDict == [t |-> "dict", v |-> 0]
EmptyList == [t |-> "list", v |-> 0]
ObjectId(n) == [t |-> "ObjectId", v |-> n]

Digits == <<"0", "1", "2", "3", "4", "5", "6", "7", "8", "9">>

RECURSIVE IntToStr(_)
IntToStr(n) ==
    IF n < 0 THEN "-" \o IntToStr(0 - n)
    ELSE IF n < 10 THEN Digits[n + 1]
    ELSE IntToStr(n \div 10) \o Digits[(n % 10) + 1]

\* str(val)
str(val) ==
    CASE val.t = "int" -> IntToStr(val.v)
      [] val.t = "str" -> val.v
      [] val.t = "NoneType" -> "None"
      [] val.t = "bool" -> (IF val.v THEN "True" ELSE "False")
      [] val.t = "dict" -> "{}"
      [] val.t = "list" -> "[]"
      [] val.t = "ObjectId" -> "oid" \o IntToStr(val.v)

\* isinstance(val, (dict, list))
isinstance_dict_list(val) == val.t \in {"dict", "list"}

\* The key under which a Python set holds a hashable value: values that are
\* equal in Python (1 == True) are one element.
SetKey(val) ==
    IF val.t = "bool" THEN IntVal(IF val.v THEN 1 ELSE 0) ELSE val

Min(a, b) == IF a < b THEN a ELSE b

\* round(n / d, 2) for integers n >= 0, d > 0, in hundredths: Python rounds the
\* exact quotient to the nearest hundredth, a tie to the even one.
RoundHundredths(n, d) ==
    LET q == (100 * n) \div d
        r == (100 * n) % d
    IN  IF 2 * r > d THEN q + 1
        ELSE IF 2 * r < d THEN q
        ELSE IF q % 2 = 0 THEN q ELSE q + 1

\* F applied to the value of v, which is evaluated once.
Bind(v, F(_)) == CHOOSE r \in {F(x) : x \in {v}} : TRUE

\* dict.get(key, default)
Get(dict, key, default) == IF key \in DOMAIN dict THEN dict[key] ELSE default

----------------------------------------------------------------------------
(* The collaborator (pymongo) operations the scripts use.  A collection is  *)
(* [docs |-> sequence of documents in natural order, collstats |-> the      *)
(* mapping the collstats command returns].  A document is a function from   *)
(* field names to values.  `fail` names the backend operation that is       *)
(* unavailable during the run ("none": every call succeeds).                *)

Failures == {"none", "count_documents", "collstats", "find"}

BackendError(op) == op \o ": backend unavailable"

\* collection.count_documents({})
count_documents(collection) == Len(collection.docs)

\* Mutant of find_skip_limit: the limit keeps the last documents, not the first.
find_skip_limit_tail(collection, skip, limit) ==
    LET n == Len(collection.docs)
    IN  IF skip >= n THEN <<>>
        ELSE SubSeq(collection.docs, n - Min(n - skip, limit) + 1, n)

\* list(collection.find().skip(skip).limit(limit))
find_skip_limit(collection, skip, limit) ==
    LET n == Len(collection.docs)
    IN  IF skip >= n THEN <<>>
        ELSE SubSeq(collection.docs, skip + 1, Min(n, skip + limit))

----------------------------------------------------------------------------
(* get_detailed_collection_stats.  A Python dict used as a counter keeps    *)
(* its keys in insertion order: it is a sequence of <<key, count>> pairs.   *)

\* Mutant of CountUp: a key already counted keeps its count.
CountUp_keep(counts, key) ==
    IF \E i \in 1..Len(counts) : counts[i][1] = key
    THEN counts
    ELSE Append(counts, <<key, 1>>)

\* counts[key] += 1 if key in counts else counts[key] = 1
CountUp(counts, key) ==
    IF \E i \in 1..Len(counts) : counts[i][1] = key
    THEN LET k == CHOOSE i \in 1..Len(counts) : counts[i][1] = key
         IN  SubSeq(counts, 1, k - 1) \o <<<<key, counts[k][2] + 1>>>> \o
             SubSeq(counts, k + 1, Len(counts))
    ELSE Append(counts, <<key, 1>>)

\* A loop over a long list is evaluated as the loop over its first half
\* followed by the loop over its second half; RunLen is the longest list
\* taken item by item.
RunLen == 8

\* for key in keys: counts[key] += 1, the keys taken in order
RECURSIVE CountAll(_, _)
CountAll(keys, counts) ==
    IF keys = <<>> THEN counts
    ELSE IF Len(keys) <= RunLen THEN CountAll(Tail(keys), CountUp(counts, Head(keys)))
    ELSE Bind(CountAll(SubSeq(keys, 1, Len(keys) \div 2), counts),
              LAMBDA done : CountAll(SubSeq(keys, Len(keys) \div 2 + 1, Len(keys)), done))

\* Mutant of InsertByCount: an item goes before the items of equal count.
InsertByCount_before_equal(sorted, item) ==
    LET k == Cardinality({i \in 1..Len(sorted) : sorted[i][2] > item[2]})
    IN  SubSeq(sorted, 1, k) \o <<item>> \o SubSeq(sorted, k + 1, Len(sorted))

\* One step of sorted(items, key=lambda x: x[1], reverse=True): the sort is
\* stable, so an item goes after every item whose count is at least its own.
InsertByCount(sorted, item) ==
    LET k == Cardinality({i \in 1..Len(sorted) : sorted[i][2] >= item[2]})
    IN  SubSeq(sorted, 1, k) \o <<item>> \o SubSeq(sorted, k + 1, Len(sorted))

\* sorted(items, key=lambda x: x[1], reverse=True): the items inserted in order
RECURSIVE SortByCount(_, _)
SortByCount(items, sorted) ==
    IF items = <<>> THEN sorted
    ELSE IF Len(items) <= RunLen
    THEN SortByCount(Tail(items), InsertByCount(sorted, Head(items)))
    ELSE Bind(SortByCount(SubSeq(items, 1, Len(items) \div 2), sorted),
              LAMBDA done : SortByCount(SubSeq(items, Len(items) \div 2 + 1, Len(items)), done))

\* sorted(value_counts.items(), key=lambda x: x[1], reverse=True)[:10]
TopN == 10
sorted_values(value_counts) ==
    LET all == SortByCount(value_counts, <<>>)
    IN  SubSeq(all, 1, Min(TopN, Len(all)))

\* Mutant of field_values: a null value counts as an absent field.
field_values_non_null(sample_docs, field) ==
    LET having == SelectSeq(sample_docs,
                            LAMBDA doc : field \in DOMAIN doc /\ doc[field] # None)
    IN  [i \in 1..Len(having) |-> having[i][field]]

\* [doc.get(field) for doc in sample_docs if field in doc]
field_values(sample_docs, field) ==
    LET having == SelectSeq(sample_docs, LAMBDA doc : field \in DOMAIN doc)
    IN  [i \in 1..Len(having) |-> having[i][field]]

\* Mutant of all_fields: the keys common to all sampled documents.
all_fields_common(sample_docs) ==
    {f \in UNION {DOMAIN sample_docs[i] : i \in 1..Len(sample_docs)} :
        \A i \in 1..Len(sample_docs) : f \in DOMAIN sample_docs[i]}

\* all_fields: the union of the keys of the sampled documents
all_fields(sample_docs) ==
    UNION {DOMAIN sample_docs[i] : i \in 1..Len(sample_docs)}

\* The fields the loops guarded by `if field != '_id'` go through.
fields_but_id(sample_docs) == all_fields(sample_docs) \ {"_id"}

\* Mutant of field_coverage_entry: the documents with the field over those without.
field_coverage_entry_ratio(sample_docs, field) ==
    LET field_count == Len(field_values(sample_docs, field))
    IN  [count |-> field_count,
         coverage_pct |-> [num |-> field_count * 100,
                           den |-> Len(sample_docs) - field_count]]

\* field_coverage[field]; coverage_pct is the quotient num / den, kept exact.
field_coverage_entry(sample_docs, field) ==
    LET field_count == Len(field_values(sample_docs, field))
    IN  [count |-> field_count,
         coverage_pct |-> [num |-> field_count * 100, den |-> Len(sample_docs)]]

field_coverage(sample_docs) ==
    [field \in fields_but_id(sample_docs) |-> field_coverage_entry(sample_docs, field)]

\* field_types: the loop of lines 138-146 has no `_id` guard.
field_types(sample_docs) ==
    [field \in all_fields(sample_docs) |->
        LET values == field_values(sample_docs, field)
        IN  CountAll([i \in 1..Len(values) |-> values[i].t], <<>>)]

\* Mutant of has_value_distribution: any field that has a value gets a table.
has_value_distribution_any(sample_docs, field) ==
    field_values(sample_docs, field) # <<>>

\* The guard of line 157: the field has a value and the first one is no dict or list.
has_value_distribution(sample_docs, field) ==
    LET values == field_values(sample_docs, field)
    IN  values # <<>> /\ ~isinstance_dict_list(values[1])

\* Mutant of value_counts: a value is counted under its type and string form.
value_counts_typed(sample_docs, field) ==
    LET values == field_values(sample_docs, field)
    IN  CountAll([i \in 1..Len(values) |-> values[i].t \o ":" \o str(values[i])], <<>>)

\* value_counts: the values counted under str(val), in first-encountered order.
value_counts(sample_docs, field) ==
    LET values == field_values(sample_docs, field)
    IN  CountAll([i \in 1..Len(values) |-> str(values[i])], <<>>)

value_distributions(sample_docs) ==
    [field \in {f \in fields_but_id(sample_docs) : has_value_distribution(sample_docs, f)} |->
        sorted_values(value_counts(sample_docs, field))]

\* distinct_counts[field]: the size of the set of the field's values that are
\* no dict or list.
distinct_values(sample_docs, field) ==
    LET values == field_values(sample_docs, field)
    IN  {SetKey(values[i]) : i \in {j \in 1..Len(values) : ~isinstance_dict_list(values[j])}}

distinct_counts(sample_docs) ==
    [field \in fields_but_id(sample_docs) |-> Cardinality(distinct_values(sample_docs, field))]

\* Lines 103-111: the document count and the collstats metrics.  Sizes are in
\* hundredths of a MB (KB for avg_doc_size_kb).
MB == 1024 * 1024
KB == 1024
\* Mutant of basic_stats: size_mb read from storageSize.
basic_stats_storage_as_size(collection) ==
    LET coll_stats == collection.collstats
    IN  [doc_count |-> count_documents(collection),
         size_mb |-> RoundHundredths(Get(coll_stats, "storageSize", 0), MB),
         avg_doc_size_kb |->
            IF Get(coll_stats, "avgObjSize", 0) > 0
            THEN RoundHundredths(Get(coll_stats, "avgObjSize", 0), KB) ELSE 0,
         storage_size_mb |-> RoundHundredths(Get(coll_stats, "storageSize", 0), MB),
         index_size_mb |-> RoundHundredths(Get(coll_stats, "totalIndexSize", 0), MB),
         index_count |-> Cardinality(Get(coll_stats, "indexSizes", {}))]

\* Mutant of basic_stats: a missing storageSize is read as the data size.
basic_stats_storage_defaults_to_size(collection) ==
    LET coll_stats == collection.collstats
    IN  [doc_count |-> count_documents(collection),
         size_mb |-> RoundHundredths(Get(coll_stats, "size", 0), MB),
         avg_doc_size_kb |->
            IF Get(coll_stats, "avgObjSize", 0) > 0
            THEN RoundHundredths(Get(coll_stats, "avgObjSize", 0), KB) ELSE 0,
         storage_size_mb |->
            RoundHundredths(Get(coll_stats, "storageSize", Get(coll_stats, "size", 0)), MB),
         index_size_mb |-> RoundHundredths(Get(coll_stats, "totalIndexSize", 0), MB),
         index_count |-> Cardinality(Get(coll_stats, "indexSizes", {}))]

basic_stats(collection) ==
    LET coll_stats == collection.collstats
    IN  [doc_count |-> count_documents(collection),
         size_mb |-> RoundHundredths(Get(coll_stats, "size", 0), MB),
         avg_doc_size_kb |->
            IF Get(coll_stats, "avgObjSize", 0) > 0
            THEN RoundHundredths(Get(coll_stats, "avgObjSize", 0), KB) ELSE 0,
         storage_size_mb |-> RoundHundredths(Get(coll_stats, "storageSize", 0), MB),
         index_size_mb |-> RoundHundredths(Get(coll_stats, "totalIndexSize", 0), MB),
         index_count |-> Cardinality(Get(coll_stats, "indexSizes", {}))]

\* Lines 117-180: the keys added when the sample is not empty.
field_analysis(sample_docs) ==
    IF sample_docs # <<>>
    THEN [field_count |-> Cardinality(all_fields(sample_docs)),
          field_coverage |-> field_coverage(sample_docs),
          field_types |-> field_types(sample_docs),
          value_distributions |-> value_distributions(sample_docs),
          distinct_counts |-> distinct_counts(sample_docs)]
    ELSE <<>>

\* Mutant of primary_type: among the types of highest count, the one met last.
primary_type_latest(type_counts) ==
    LET sorted_types == SortByCount(type_counts, <<>>)
        top == {i \in 1..Len(sorted_types) : sorted_types[i][2] = sorted_types[1][2]}
    IN  IF sorted_types # <<>>
        THEN sorted_types[CHOOSE i \in top : \A j \in top : j <= i][1]
        ELSE "unknown"

\* Lines 378-379: sorted_types[0][0] if sorted_types else "unknown"
primary_type(type_counts) ==
    LET sorted_types == SortByCount(type_counts, <<>>)
    IN  IF sorted_types # <<>> THEN sorted_types[1][1] ELSE "unknown"

\* Lines 372-385: the rows of the Data Types tab of the popup, one per field
\* of field_types but _id.
type_data(stats) ==
    IF "field_types" \in DOMAIN stats
    THEN [field \in DOMAIN stats.field_types \ {"_id"} |->
            [primary_type |-> primary_type(stats.field_types[field]),
             all_types |-> SortByCount(stats.field_types[field], <<>>)]]
    ELSE <<>>

\* Lines 281-441: the popup showing a report under the collection's name.
Popup(title, stats) ==
    [shown |-> TRUE, title |-> title, stats |-> stats, type_data |-> type_data(stats)]

\* The outcome of a call: a returned value or a raised exception.
Return(value) == [raised |-> FALSE, value |-> value]
Raise(exc) == [raised |-> TRUE, exc |-> exc]

SampleLimit == 100

\* Mutant of get_detailed_collection_stats: a failing count_documents is
\* replaced by a document count of 0 instead of aborting the computation.
get_detailed_collection_stats_default_count(db, collection_name, fail) ==
    LET collection == db[collection_name]
        sample_docs == find_skip_limit(collection, 0, SampleLimit)
    IN  IF fail = "collstats" THEN Raise(BackendError("collstats"))
        ELSE IF fail = "find" THEN Raise(BackendError("find"))
        ELSE Return(field_analysis(sample_docs) @@
                    [basic_stats(collection) EXCEPT
                        !.doc_count = IF fail = "count_documents" THEN 0 ELSE @])

get_detailed_collection_stats(db, collection_name, fail) ==
    LET collection == db[collection_name]
    IN  IF fail = "count_documents" THEN Raise(BackendError("count_documents"))
        ELSE IF fail = "collstats" THEN Raise(BackendError("collstats"))
        ELSE IF fail = "find" THEN Raise(BackendError("find"))
        ELSE LET sample_docs == find_skip_limit(collection, 0, SampleLimit)
             IN  Return(field_analysis(sample_docs) @@ basic_stats(collection))

----------------------------------------------------------------------------
(* StatsSpec: get_detailed_collection_stats on every collection of at most  *)
(* MaxDocs documents over the fields a, b, c (each present or absent in     *)
(* each document; every document carries its own _id).                      *)

MaxDocs == 3

SampleFields == {"a", "b", "c"}

FieldChoices ==
    [a |-> {IntVal(1), IntVal(2), StrVal("1"), EmptyDict},
     b |-> {StrVal("x")},
     c |-> {None}]

Bodies ==
    UNION {{body \in [S -> UNION {FieldChoices[f] : f \in SampleFields}] :
                \A f \in S : body[f] \in FieldChoices[f]} : S \in SUBSET SampleFields}

Document(body, i) == ("_id" :> ObjectId(i)) @@ body

\* What collstats returns: of a collection with data, of a collection with no
\* document (no avgObjSize), of one whose storageSize is a rounding tie
\* (0.625 MB), and a reply that carries none of the metrics.
TypicalCollStats ==
    [size |-> 1572864, avgObjSize |-> 1536, storageSize |-> 4096,
     totalIndexSize |-> 20480, indexSizes |-> {"_id_"}]

EmptyCollStats ==
    [size |-> 0, storageSize |-> 4096, totalIndexSize |-> 4096, indexSizes |-> {"_id_"}]

TieCollStats ==
    [size |-> 5767168, avgObjSize |-> 1029, storageSize |-> 655360,
     totalIndexSize |-> 36864, indexSizes |-> {"_id_", "a_1"}]

NoCollStats == <<>>

\* The replies that lack some of the metrics: TieCollStats restricted to each
\* subset of its keys (NoCollStats is the one restricted to no key).
PartialCollStats ==
    {[k \in present |-> TieCollStats[k]] : present \in SUBSET DOMAIN TieCollStats}

\* Every reply is tried on the collections of at most one document; the longer
\* ones carry the typical reply.
CollStatsChoices(n) ==
    IF n <= 1
    THEN {TypicalCollStats, EmptyCollStats, TieCollStats, NoCollStats} \cup PartialCollStats
    ELSE {TypicalCollStats}

\* Longer collections, around the sample limit and the length of a frequency
\* table: document i carries its _id and the field a, whose value follows a
\* pattern in i.
SeriesSizes == {11, 25, 99, 100, 101, 130}

SeriesPatterns ==
    {"unique", "mod 10", "mod 11", "mod 12", "squares", "int and text",
     "lists", "list first", "list later", "null and int"}

SeriesValue(pattern, i) ==
    CASE pattern = "unique" -> IntVal(i)
      [] pattern = "mod 10" -> IntVal(i % 10)
      [] pattern = "mod 11" -> IntVal(i % 11)
      [] pattern = "mod 12" -> IntVal(i % 12)
      [] pattern = "squares" -> IntVal((i * i) % 23)
      [] pattern = "int and text" ->
            IF i % 2 = 0 THEN IntVal(i % 4) ELSE StrVal(IntToStr((i + 1) % 4))
      [] pattern = "lists" -> EmptyList
      [] pattern = "list first" -> IF i = 1 THEN EmptyList ELSE IntVal(i % 3)
      [] pattern = "list later" -> IF i % 5 = 0 THEN EmptyList ELSE IntVal(i % 3)
      [] pattern = "null and int" -> IF i % 3 = 0 THEN None ELSE IntVal(i % 2)

SeriesDocs(n, pattern) ==
    [i \in 1..n |-> Document([a |-> SeriesValue(pattern, i)], i)]

\* The variable report: no call of get_detailed_collection_stats yet (in the
\* run), or the outcome of the call together with the failure mode it ran under.
NotCalled == [called |-> FALSE]
Called(r) == "raised" \in DOMAIN r
CallRecord(fail, outcome) == [fail |-> fail] @@ outcome

Idle == [idle |-> TRUE]

StatsInit ==
    /\ \/ \E n \in 0..MaxDocs : \E bodies \in [1..n -> Bodies] : \E cs \in CollStatsChoices(n) :
             store = ("db" :> ("coll" :>
                        [docs |-> [i \in 1..n |-> Document(bodies[i], i)], collstats |-> cs]))
       \/ \E n \in SeriesSizes : \E pattern \in SeriesPatterns :
             store = ("db" :> ("coll" :>
                        [docs |-> SeriesDocs(n, pattern), collstats |-> TypicalCollStats]))
    /\ report = NotCalled
    /\ program = Idle /\ widgets = Idle /\ session = Idle /\ screen = Idle

\* The function applied to the collection, every backend call succeeding, and
\* the popup that displays the report.
ComputeReport ==
    /\ ~Called(report)
    /\ \E call \in {get_detailed_collection_stats(store["db"], "coll", "none")} :
          /\ report' = CallRecord("none", call)
          /\ screen' = Popup("coll", call.value)
    /\ UNCHANGED <<store, program, widgets, session>>

\* The documents in the opposite order.
Reversed(docs) == [i \in 1..Len(docs) |-> docs[Len(docs) + 1 - i]]

\* Mutant of RecomputeReport: the store yields the documents in the opposite
\* order the second time.
RecomputeReport_reversed ==
    /\ Called(report)
    /\ session = Idle
    /\ \E call \in {get_detailed_collection_stats(
                       [coll |-> [store["db"]["coll"] EXCEPT !.docs = Reversed(@)]],
                       "coll", "none")} :
          /\ session' = [collection_stats |-> call.value]
          /\ screen' = Popup("coll", call.value)
    /\ UNCHANGED <<store, program, widgets, report>>

\* The function applied a second time to the unchanged collection, as Show
\* Collection Statistics does (line 452): the report goes to the session
\* state and the popup displays it.
RecomputeReport ==
    /\ Called(report)
    /\ session = Idle
    /\ \E call \in {get_detailed_collection_stats(store["db"], "coll", "none")} :
          /\ session' = [collection_stats |-> call.value]
          /\ screen' = Popup("coll", call.value)
    /\ UNCHANGED <<store, program, widgets, report>>

StatsNext == ComputeReport

StatsSpec == StatsInit /\ [][StatsNext]_vars

\* RecomputeSpec: the function applied to the collection, then a second time.
RecomputeNext == ComputeReport \/ RecomputeReport

RecomputeSpec == StatsInit /\ [][RecomputeNext]_vars

----------------------------------------------------------------------------
(* AnalysisSpec: the computation of Analyze Field on the collections of at  *)
(* most two documents and on the longer ones of the series, for each field. *)
(* (The operators of the Field Analysis tab are defined with the scripts,   *)
(* below.)                                                                  *)

AnalysisInputs ==
    UNION {{[docs |-> [i \in 1..n |-> Document(bodies[i], i)], collstats |-> TypicalCollStats] :
                bodies \in [1..n -> Bodies]} : n \in 0..2}
    \cup {[docs |-> SeriesDocs(n, pattern), collstats |-> TypicalCollStats] :
                n \in SeriesSizes, pattern \in SeriesPatterns}

AnalysisInit ==
    /\ \E collection \in AnalysisInputs : store = ("db" :> ("coll" :> collection))
    /\ report = NotCalled
    /\ program = Idle /\ widgets = Idle /\ session = Idle /\ screen = Idle

----------------------------------------------------------------------------
(* The scripts.  Streamlit runs the whole script, top to bottom, on every   *)
(* widget event; st.session_state and the widgets' values outlive a run,    *)
(* the script's own variables do not.  A run is modelled as the composition *)
(* of the script's blocks over a context                                    *)
(*   [s |-> session state, w |-> widget values, out |-> what is rendered,   *)
(*    status |-> "ok" | "raised" | "rerun", exc |-> the exception message,  *)
(*    stats_bound |-> whether the script variable `stats` is bound,         *)
(*    stats |-> its value,                                                  *)
(*    call |-> the outcome of the call of get_detailed_collection_stats]    *)
(* and a block does nothing once the status is no longer "ok".              *)

NONE == "<None>"          \* Python's None where a name is expected
ABSENT == "<absent>"      \* a key st.session_state does not have
NoStats == [none |-> TRUE]  \* collection_stats = None
NoPopup == [shown |-> FALSE]
NoResult == [kind |-> "none"]

\* The store the scripts run against: two databases that both have a
\* collection "users", with different documents, and an empty collection.
DatabaseList == <<"db1", "db2">>
CollectionList == [db1 |-> <<"users", "logs">>, db2 |-> <<"users">>]

UsersOfDb1 ==
    [i \in 1..6 |->
        IF i % 3 = 0 THEN ("_id" :> ObjectId(i)) @@ [a |-> IntVal((i % 2) + 1), b |-> StrVal("x")]
        ELSE ("_id" :> ObjectId(i)) @@ [a |-> IntVal((i % 2) + 1)]]

UsersOfDb2 ==
    <<("_id" :> ObjectId(1)) @@ [a |-> StrVal("1")],
      ("_id" :> ObjectId(2)) @@ [a |-> EmptyDict, c |-> None]>>

InitialStore ==
    [db1 |-> [users |-> [docs |-> UsersOfDb1, collstats |-> TypicalCollStats],
              logs |-> [docs |-> <<>>, collstats |-> EmptyCollStats]],
     db2 |-> [users |-> [docs |-> UsersOfDb2, collstats |-> TieCollStats]]]

\* st.slider("Items per page", 5, 100, 10): the values the user is given here.
SliderDefault == 10
SliderChoices == {5, 10}

InitialWidgets ==
    [db |-> NONE, collection |-> NONE, coll_options |-> <<>>, slider |-> SliderDefault]

\* Lines 209-226 of updated_pipeline.py, lines 83-94 of mongo.py.
InitialSession(prog) ==
    IF prog = "updated_pipeline"
    THEN [client |-> FALSE, db_selected |-> NONE, collection_selected |-> NONE,
          query_results |-> NONE, pagination_page |-> 1, items_per_page |-> 10,
          previous_collection |-> NONE, show_stats_popup |-> FALSE,
          collection_stats |-> NoStats, last_collection |-> ABSENT]
    ELSE [client |-> FALSE, db_selected |-> NONE, collection_selected |-> NONE,
          query_results |-> NONE, pagination_page |-> 1, items_per_page |-> 10,
          last_collection |-> ABSENT]

BlankScreen ==
    [error |-> "", info |-> {}, rendered |-> {"Connect"}, popup |-> NoPopup,
     header |-> "", metrics |-> <<>>, docs |-> <<>>, page_line |-> <<>>,
     result |-> NoResult]

NoEvent == [kind |-> "none"]

\* Line 755
ConnectPrompt == "Please connect to MongoDB using the connection details in the sidebar."

StartContext(s, w) ==
    [s |-> s, w |-> w, out |-> BlankScreen, status |-> "ok", exc |-> "",
     stats_bound |-> FALSE, stats |-> NoStats, call |-> NotCalled]

Render(ctx, label) == [ctx EXCEPT !.out.rendered = @ \cup {label}]
Raised(ctx, exc) == [ctx EXCEPT !.status = "raised", !.exc = exc]
Rerun(ctx) == [ctx EXCEPT !.status = "rerun"]

\* st.selectbox(label, options): the value kept from the last run if the
\* widget is the same one (same options), else the first option.
selected_db_of(w) ==
    IF \E i \in 1..Len(DatabaseList) : DatabaseList[i] = w.db THEN w.db ELSE DatabaseList[1]

selected_collection_of(w, collection_list) ==
    IF w.coll_options = collection_list THEN w.collection ELSE collection_list[1]

\* Lines 229-234 (97-102 of mongo.py): the Connect button.
ConnectBlock(ctx, ev) ==
    IF ev.kind = "Connect" THEN [ctx EXCEPT !.s.client = ev.ok] ELSE ctx

\* Lines 240-273 of updated_pipeline.py: the sidebar.
Sidebar(ctx, fail) ==
    LET selected_db == selected_db_of(ctx.w)
        collection_list == CollectionList[selected_db]
        selected_collection == selected_collection_of(ctx.w, collection_list)
        c1 == Render(Render([ctx EXCEPT !.s.db_selected = selected_db,
                                         !.w.db = selected_db,
                                         !.w.collection = selected_collection,
                                         !.w.coll_options = collection_list],
                            "Select Database"), "Select Collection")
        changed == c1.s.collection_selected # selected_collection
        c2 == IF changed
              THEN [c1 EXCEPT !.s.previous_collection = c1.s.collection_selected,
                              !.s.collection_selected = selected_collection,
                              !.s.show_stats_popup = TRUE]
              ELSE c1
        call == get_detailed_collection_stats(store[selected_db], selected_collection, fail)
    IN  IF changed /\ call.raised
        THEN Raised([c2 EXCEPT !.call = CallRecord(fail, call)], call.exc)
        ELSE LET c3 == IF changed
                       THEN [c2 EXCEPT !.s.collection_stats = call.value,
                                       !.call = CallRecord(fail, call)]
                       ELSE c2
                 c4 == Render([c3 EXCEPT !.s.items_per_page = c3.w.slider], "Items per page")
             IN  IF c4.s.last_collection # selected_collection
                 THEN [c4 EXCEPT !.s.pagination_page = 1,
                                 !.s.last_collection = selected_collection]
                 ELSE c4

\* Lines 280-291: the statistics popup and its Close button.  (The body of the
\* popup, lines 293-441, renders the keys of `stats`.)
PopupBlock(ctx, ev) ==
    IF ctx.status # "ok" THEN ctx
    ELSE IF ctx.s.show_stats_popup /\ ctx.s.collection_stats # NoStats
    THEN LET c1 == Render([ctx EXCEPT !.stats_bound = TRUE,
                                      !.stats = ctx.s.collection_stats,
                                      !.out.popup = Popup(ctx.s.collection_selected,
                                                          ctx.s.collection_stats)],
                          "Close")
         IN  IF ev.kind = "Close"
             THEN Rerun([c1 EXCEPT !.s.show_stats_popup = FALSE])
             ELSE c1
    ELSE ctx

\* Lines 444-453: the header and the Show Collection Statistics button.
ShowButtonBlock(ctx, ev, fail) ==
    IF ctx.status # "ok" THEN ctx
    ELSE LET c1 == [ctx EXCEPT !.out.header = ctx.s.collection_selected]
         IN  IF ~c1.s.show_stats_popup
             THEN LET c2 == Render(c1, "Show Collection Statistics")
                      call == get_detailed_collection_stats(
                                  store[c2.s.db_selected], c2.s.collection_selected, fail)
                  IN  IF ev.kind = "Show Collection Statistics"
                      THEN IF call.raised
                           THEN Raised([c2 EXCEPT !.s.show_stats_popup = TRUE,
                                                  !.call = CallRecord(fail, call)], call.exc)
                           ELSE Rerun([c2 EXCEPT !.s.show_stats_popup = TRUE,
                                                 !.s.collection_stats = call.value,
                                                 !.call = CallRecord(fail, call)])
                      ELSE c2
             ELSE c1

NameErrorStats == "name 'stats' is not defined"

\* total_pages = (doc_count + items_per_page - 1) // items_per_page
total_pages(doc_count, items_per_page) == (doc_count + items_per_page - 1) \div items_per_page

\* Cursor.skip(skip) of pymongo raises ValueError on a negative skip.
SkipValueError == "The 'skip' parameter must be >= 0"

\* Mutant of ViewDataTab: Previous Page goes back whatever the page.
ViewDataTab_unguarded(ctx, ev, fail, doc_count_bound, doc_count) ==
    IF ctx.status # "ok" THEN ctx
    ELSE LET collection == store[ctx.s.db_selected][ctx.s.collection_selected]
             skip == (ctx.s.pagination_page - 1) * ctx.s.items_per_page
             docs == find_skip_limit(collection, skip, ctx.s.items_per_page)
         IN  IF fail = "find" THEN Raised(ctx, BackendError("find"))
             ELSE IF skip < 0 THEN Raised(ctx, SkipValueError)
             ELSE IF docs = <<>>
             THEN [ctx EXCEPT !.out.info = @ \cup {"No documents found in this collection."}]
             ELSE LET c1 == Render([ctx EXCEPT !.out.docs = docs], "Previous Page")
                  IN  IF ev.kind = "Previous Page"
                      THEN Rerun([c1 EXCEPT !.s.pagination_page = @ - 1])
                      ELSE IF ~doc_count_bound THEN Raised(c1, NameErrorStats)
                      ELSE LET c2 == Render([c1 EXCEPT !.out.page_line =
                                                <<c1.s.pagination_page,
                                                  total_pages(doc_count, c1.s.items_per_page)>>],
                                            "Next Page")
                           IN  IF ev.kind = "Next Page"
                               THEN Rerun([c2 EXCEPT !.s.pagination_page = @ + 1])
                               ELSE c2

\* Lines 458-498: the View Data tab.  `doc_count_bound` and `doc_count` are the
\* script variable line 490 (199 of mongo.py) reads.
ViewDataTab(ctx, ev, fail, doc_count_bound, doc_count) ==
    IF ctx.status # "ok" THEN ctx
    ELSE LET collection == store[ctx.s.db_selected][ctx.s.collection_selected]
             skip == (ctx.s.pagination_page - 1) * ctx.s.items_per_page
             docs == find_skip_limit(collection, skip, ctx.s.items_per_page)
         IN  IF fail = "find" THEN Raised(ctx, BackendError("find"))
             ELSE IF skip < 0 THEN Raised(ctx, SkipValueError)
             ELSE IF docs = <<>>
             THEN [ctx EXCEPT !.out.info = @ \cup {"No documents found in this collection."}]
             ELSE LET c1 == Render([ctx EXCEPT !.out.docs = docs], "Previous Page")
                  IN  IF ev.kind = "Previous Page" /\ c1.s.pagination_page > 1
                      THEN Rerun([c1 EXCEPT !.s.pagination_page = @ - 1])
                      ELSE IF ~doc_count_bound THEN Raised(c1, NameErrorStats)
                      ELSE LET c2 == Render([c1 EXCEPT !.out.page_line =
                                                <<c1.s.pagination_page,
                                                  total_pages(doc_count, c1.s.items_per_page)>>],
                                            "Next Page")
                           IN  IF ev.kind = "Next Page"
                               THEN Rerun([c2 EXCEPT !.s.pagination_page = @ + 1])
                               ELSE c2

\* collection.find_one(): the first document, if any
has_sample_doc(collection) == collection.docs # <<>>
sample_doc_of(collection) == collection.docs[1]

\* The strings of the store and of the search box are single characters of
\* this alphabet, in their order.
Alphabet == <<"1", "x">>
SearchValues == {"", "1", "x"}
SearchTypes == {"Exact match", "Contains", "Regex", "Greater than", "Less than"}
IndexIn(seq, x) == CHOOSE i \in 1..Len(seq) : seq[i] = x
StrLess(s1, s2) == IndexIn(Alphabet, s1) < IndexIn(Alphabet, s2)

\* search_value.replace(".", "", 1).isdigit() and float(search_value)
IsDigit(value) == \E i \in 1..Len(Digits) : Digits[i] = value
NumberOf(value) == IndexIn(Digits, value) - 1

\* Whether a value satisfies the query lines 515-545 build from the search
\* type and the search value.
Matches(val, search_type, search_value) ==
    CASE search_type = "Exact match" -> val = StrVal(search_value)
      [] search_type = "Contains" -> val.t = "str" /\ val.v = search_value
      [] search_type = "Regex" -> val.t = "str" /\ val.v = search_value
      [] search_type = "Greater than" ->
            IF IsDigit(search_value)
            THEN val.t = "int" /\ val.v > NumberOf(search_value)
            ELSE val.t = "str" /\ StrLess(search_value, val.v)
      [] search_type = "Less than" ->
            IF IsDigit(search_value)
            THEN val.t = "int" /\ val.v < NumberOf(search_value)
            ELSE val.t = "str" /\ StrLess(val.v, search_value)

\* list(collection.find(query).limit(100))
find_query(collection, field, search_type, search_value) ==
    LET found == SelectSeq(collection.docs,
                           LAMBDA doc : /\ field \in DOMAIN doc
                                        /\ Matches(doc[field], search_type, search_value))
    IN  SubSeq(found, 1, Min(SampleLimit, Len(found)))

\* Lines 500-566 (209-275 of mongo.py): the Search tab.
SearchTab(ctx, ev, fail) ==
    IF ctx.status # "ok" THEN ctx
    ELSE LET collection == store[ctx.s.db_selected][ctx.s.collection_selected]
         IN  IF fail = "find" THEN Raised(ctx, BackendError("find"))
             ELSE IF ~has_sample_doc(collection)
             THEN [ctx EXCEPT !.out.info = @ \cup {"No documents found to extract fields from."}]
             ELSE LET c1 == Render(ctx, "Search")
                  IN  IF ev.kind # "Search" THEN c1
                      ELSE IF ev.value = ""
                      THEN [c1 EXCEPT !.out.result = [kind |-> "search warning"]]
                      ELSE [c1 EXCEPT !.out.result =
                              [kind |-> "search",
                               found |-> Len(find_query(collection, ev.field, ev.type, ev.value))]]

\* collection.count_documents({field: {"$exists": True}})
count_documents_exists(collection, field) ==
    Len(SelectSeq(collection.docs, LAMBDA doc : field \in DOMAIN doc))

\* collection.distinct(field): the values of the field over the whole
\* collection; a list counts by its elements (the lists of the store are empty).
distinct(collection, field) ==
    {collection.docs[i][field] :
        i \in {j \in 1..Len(collection.docs) :
                  /\ field \in DOMAIN collection.docs[j]
                  /\ collection.docs[j][field].t # "list"}}

AnalysisSample == 10

\* Mutant of analyze_field: the counts are taken on the first SampleLimit
\* documents of the collection.
analyze_field_sampled(collection, field_to_analyze) ==
    LET sample == [collection EXCEPT !.docs = find_skip_limit(collection, 0, SampleLimit)]
        doc_count == count_documents(sample)
        field_count == count_documents_exists(sample, field_to_analyze)
    IN  [kind |-> "analysis",
         field |-> field_to_analyze,
         coverage |-> IF doc_count > 0
                      THEN [num |-> field_count * 100, den |-> doc_count]
                      ELSE [num |-> 0, den |-> 1],
         field_count |-> field_count,
         unique_values |-> Cardinality(distinct(sample, field_to_analyze))]

\* Lines 585-597 (294-306 of mongo.py): what Analyze Field computes and
\* shows; coverage is the quotient num / den, kept exact.
analyze_field(collection, field_to_analyze) ==
    LET doc_count == count_documents(collection)
        field_count == count_documents_exists(collection, field_to_analyze)
    IN  [kind |-> "analysis",
         field |-> field_to_analyze,
         coverage |-> IF doc_count > 0
                      THEN [num |-> field_count * 100, den |-> doc_count]
                      ELSE [num |-> 0, den |-> 1],
         field_count |-> field_count,
         unique_values |-> Cardinality(distinct(collection, field_to_analyze))]

\* The fields the Field Analysis tab offers: those of the first 10 documents.
analysis_fields(collection) == all_fields(find_skip_limit(collection, 0, AnalysisSample))

\* Lines 568-605 (277-314 of mongo.py): the Field Analysis tab.
FieldAnalysisTab(ctx, ev, fail) ==
    IF ctx.status # "ok" THEN ctx
    ELSE LET collection == store[ctx.s.db_selected][ctx.s.collection_selected]
         IN  IF fail = "find" THEN Raised(ctx, BackendError("find"))
             ELSE IF find_skip_limit(collection, 0, AnalysisSample) = <<>>
             THEN [ctx EXCEPT !.out.info = @ \cup {"No documents found to analyze."}]
             ELSE LET c1 == Render(ctx, "Analyze Field")
                  IN  IF ev.kind # "Analyze Field" THEN c1
                      ELSE IF fail = "count_documents"
                      THEN Raised(c1, BackendError("count_documents"))
                      ELSE [c1 EXCEPT !.out.result = analyze_field(collection, ev.field)]

ExportOptions ==
    {"All documents", "Current view", "Selected fields", "Single field (all values)",
     "Single field (unique values only)", "Multiple fields (custom selection)"}

\* The number of documents docs_to_export holds (lines 647-704), or -1 when the
\* option warns that nothing is selected.
docs_to_export_count(ctx, collection, ev) ==
    CASE ev.option = "All documents" -> Len(collection.docs)
      [] ev.option = "Current view" ->
            Len(find_skip_limit(collection,
                                (ctx.s.pagination_page - 1) * ctx.s.items_per_page,
                                ctx.s.items_per_page))
      [] ev.option = "Selected fields" ->
            IF ev.fields # {} THEN Len(collection.docs) ELSE -1
      [] ev.option = "Single field (all values)" ->
            IF ev.single_field # NONE
            THEN count_documents_exists(collection, ev.single_field) ELSE -1
      [] ev.option = "Single field (unique values only)" ->
            IF ev.single_field # NONE
            THEN Cardinality(distinct(collection, ev.single_field)) ELSE -1
      [] ev.option = "Multiple fields (custom selection)" ->
            IF (IF ev.include_ids THEN ev.fields ELSE ev.fields \ {"_id"}) # {}
            THEN Len(collection.docs) ELSE -1

\* Lines 607-750 (316-459 of mongo.py): the Export tab.
ExportTab(ctx, ev, fail) ==
    IF ctx.status # "ok" THEN ctx
    ELSE LET collection == store[ctx.s.db_selected][ctx.s.collection_selected]
         IN  IF fail = "find" THEN Raised(ctx, BackendError("find"))
             ELSE LET c1 == Render(IF has_sample_doc(collection) THEN ctx
                                   ELSE [ctx EXCEPT !.out.info = @ \cup
                                           {"No documents found to extract fields from."}],
                                   "Generate Export")
                      count == docs_to_export_count(c1, collection, ev)
                  IN  IF ev.kind # "Generate Export" THEN c1
                      ELSE IF count < 0
                      THEN [c1 EXCEPT !.out.result = [kind |-> "export warning"]]
                      ELSE IF count = 0 THEN c1
                      ELSE [c1 EXCEPT !.out.result =
                              [kind |-> "export", option |-> ev.option, count |-> count]]

\* The four tabs, in the order the script runs them.
Tabs(ctx, ev, fail, doc_count_bound, doc_count) ==
    Bind(ViewDataTab(ctx, ev, fail, doc_count_bound, doc_count), LAMBDA c1 :
    Bind(SearchTab(c1, ev, fail), LAMBDA c2 :
    Bind(FieldAnalysisTab(c2, ev, fail), LAMBDA c3 :
         ExportTab(c3, ev, fail))))

\* Lines 275-751 of updated_pipeline.py: the main area.
MainArea(ctx, ev, fail) ==
    Bind(PopupBlock(ctx, ev), LAMBDA c1 :
    Bind(ShowButtonBlock(c1, ev, fail), LAMBDA c2 :
         Tabs(c2, ev, fail, c2.stats_bound,
              IF c2.stats_bound THEN c2.stats.doc_count ELSE 0)))

\* Lines 106-133 of mongo.py: the sidebar.
SidebarMongo(ctx) ==
    LET selected_db == selected_db_of(ctx.w)
        collection_list == CollectionList[selected_db]
        selected_collection == selected_collection_of(ctx.w, collection_list)
        c1 == Render(Render(Render(
                  [ctx EXCEPT !.s.db_selected = selected_db,
                              !.s.collection_selected = selected_collection,
                              !.s.items_per_page = ctx.w.slider,
                              !.w.db = selected_db,
                              !.w.collection = selected_collection,
                              !.w.coll_options = collection_list],
                  "Select Database"), "Select Collection"), "Items per page")
    IN  IF c1.s.last_collection # selected_collection
        THEN [c1 EXCEPT !.s.pagination_page = 1, !.s.last_collection = selected_collection]
        ELSE c1

\* Lines 135-460 of mongo.py: the main area.  The Collection Statistics
\* expander binds doc_count, which the View Data tab reads.
MainAreaMongo(ctx, ev, fail) ==
    LET collection == store[ctx.s.db_selected][ctx.s.collection_selected]
        doc_count == count_documents(collection)
        size_mb == RoundHundredths(Get(collection.collstats, "size", 0), MB)
        keys == DOMAIN sample_doc_of(collection)
        field_count == IF "_id" \in keys THEN Cardinality(keys) - 1 ELSE Cardinality(keys)
        c1 == [ctx EXCEPT !.out.header = ctx.s.collection_selected]
    IN  IF fail = "count_documents" THEN Raised(c1, BackendError(fail))
        ELSE IF fail = "collstats"
        THEN Raised([c1 EXCEPT !.out.metrics = [doc_count |-> doc_count]], BackendError(fail))
        ELSE IF fail = "find"
        THEN Raised([c1 EXCEPT !.out.metrics = [doc_count |-> doc_count, size_mb |-> size_mb]],
                    BackendError(fail))
        ELSE Tabs([c1 EXCEPT !.out.metrics =
                       IF has_sample_doc(collection)
                       THEN [doc_count |-> doc_count, size_mb |-> size_mb,
                             field_count |-> field_count]
                       ELSE [doc_count |-> doc_count, size_mb |-> size_mb]],
                  ev, fail, TRUE, doc_count)

\* Lines 752-753: except Exception as e: st.error(f"Error: {e}")
ExceptBlock(ctx) ==
    IF ctx.status = "raised" THEN [ctx EXCEPT !.out.error = "Error: " \o ctx.exc] ELSE ctx

\* One pass over the script `prog`.
ScriptPassOf(prog, s, w, ev, fail) ==
    Bind(ConnectBlock(StartContext(s, w), ev), LAMBDA c0 :
        IF ~c0.s.client
        THEN [c0 EXCEPT !.out.info = {ConnectPrompt}]
        ELSE IF prog = "mongo"
        THEN Bind(SidebarMongo(c0), LAMBDA c1 :
             Bind(MainAreaMongo(c1, ev, fail), LAMBDA c2 : ExceptBlock(c2)))
        ELSE Bind(Sidebar(c0, fail), LAMBDA c1 :
             Bind(MainArea(c1, ev, fail), LAMBDA c2 : ExceptBlock(c2))))

\* One pass over the script that is running.
ScriptPass(s, w, ev, fail) == ScriptPassOf(program, s, w, ev, fail)

\* Streamlit drops the value of a widget the run did not render.
ForgetUnrendered(ctx) ==
    [ctx EXCEPT
        !.w.db = IF "Select Database" \in ctx.out.rendered THEN @ ELSE NONE,
        !.w.collection = IF "Select Collection" \in ctx.out.rendered THEN @ ELSE NONE,
        !.w.coll_options = IF "Select Collection" \in ctx.out.rendered THEN @ ELSE <<>>,
        !.w.slider = IF "Items per page" \in ctx.out.rendered THEN @ ELSE SliderDefault]

\* A run: the pass the event triggers and, when it ends in st.rerun(), the
\* pass that follows with no event.
RunOf(prog, s, w, ev, fail) ==
    Bind(ScriptPassOf(prog, s, w, ev, fail), LAMBDA first :
    Bind(IF first.status = "rerun"
         THEN [ScriptPassOf(prog, first.s, first.w, NoEvent, fail) EXCEPT !.call = first.call]
         ELSE first,
         LAMBDA final : ForgetUnrendered(final)))

Run(s, w, ev, fail) == RunOf(program, s, w, ev, fail)

\* Mutant of Step: generating an export empties the collections.
Step_export_drains(w, ev, fail) ==
    \E ctx \in {Run(session, w, ev, fail)} :
        /\ session' = ctx.s
        /\ widgets' = ctx.w
        /\ screen' = ctx.out
        /\ report' = ctx.call
        /\ store' = IF ev.kind = "Generate Export"
                    THEN [d \in DOMAIN store |->
                            [c \in DOMAIN store[d] |-> [store[d][c] EXCEPT !.docs = <<>>]]]
                    ELSE store
        /\ UNCHANGED program

\* One run of the script on a user event: the session, the widgets and the
\* screen take the values the run leaves; the store is only read.
Step(w, ev, fail) ==
    \E ctx \in {Run(session, w, ev, fail)} :
        /\ session' = ctx.s
        /\ widgets' = ctx.w
        /\ screen' = ctx.out
        /\ report' = ctx.call
        /\ UNCHANGED <<store, program>>

Init ==
    /\ store = InitialStore
    /\ program \in {"updated_pipeline", "mongo"}
    /\ widgets = InitialWidgets
    /\ session = InitialSession(program)
    /\ screen = [BlankScreen EXCEPT !.info = {ConnectPrompt}]
    /\ report = NotCalled

\* The Connect button; the connection string is valid (ok) or not.
Connect ==
    /\ "Connect" \in screen.rendered
    /\ \E ok \in BOOLEAN, fail \in Failures :
          Step(widgets, [kind |-> "Connect", ok |-> ok], fail)

SelectDatabase ==
    /\ "Select Database" \in screen.rendered
    /\ \E i \in 1..Len(DatabaseList), fail \in Failures :
          /\ DatabaseList[i] # widgets.db
          /\ Step([widgets EXCEPT !.db = DatabaseList[i]], NoEvent, fail)

SelectCollection ==
    /\ "Select Collection" \in screen.rendered
    /\ \E i \in 1..Len(widgets.coll_options), fail \in Failures :
          /\ widgets.coll_options[i] # widgets.collection
          /\ Step([widgets EXCEPT !.collection = widgets.coll_options[i]], NoEvent, fail)

SetItemsPerPage ==
    /\ "Items per page" \in screen.rendered
    /\ \E n \in SliderChoices \ {widgets.slider}, fail \in Failures :
          Step([widgets EXCEPT !.slider = n], NoEvent, fail)

\* Clicks on the buttons the last run rendered.
ClosePopup ==
    /\ "Close" \in screen.rendered
    /\ \E fail \in Failures : Step(widgets, [kind |-> "Close"], fail)

ShowCollectionStatistics ==
    /\ "Show Collection Statistics" \in screen.rendered
    /\ \E fail \in Failures : Step(widgets, [kind |-> "Show Collection Statistics"], fail)

PreviousPage ==
    /\ "Previous Page" \in screen.rendered
    /\ \E fail \in Failures : Step(widgets, [kind |-> "Previous Page"], fail)

NextPage ==
    /\ "Next Page" \in screen.rendered
    /\ \E fail \in Failures : Step(widgets, [kind |-> "Next Page"], fail)

\* The collection the main area shows.
CurrentCollection == store[session.db_selected][session.collection_selected]

\* The Search button, with the field, the search type and the value entered.
Search ==
    /\ "Search" \in screen.rendered
    /\ \E field \in DOMAIN sample_doc_of(CurrentCollection), type \in SearchTypes,
          value \in SearchValues, fail \in Failures :
          Step(widgets, [kind |-> "Search", field |-> field, type |-> type, value |-> value], fail)

AnalyzeField ==
    /\ "Analyze Field" \in screen.rendered
    /\ \E field \in analysis_fields(CurrentCollection), fail \in Failures :
          Step(widgets, [kind |-> "Analyze Field", field |-> field], fail)

\* The Generate Export button, with the export option and the inputs that
\* option renders: fields chosen among those of the first document (none when
\* there is no document).
GenerateExport ==
    /\ "Generate Export" \in screen.rendered
    /\ LET all == IF has_sample_doc(CurrentCollection)
                  THEN DOMAIN sample_doc_of(CurrentCollection) ELSE {}
       IN  \E option \in ExportOptions, fail \in Failures :
           \E include_ids \in IF option = "Multiple fields (custom selection)"
                              THEN BOOLEAN ELSE {FALSE},
              fields \in IF option \in {"Selected fields", "Multiple fields (custom selection)"}
                         THEN {{}} \cup {{f} : f \in all} ELSE {{}},
              single_field \in IF option \in {"Single field (all values)",
                                              "Single field (unique values only)"} /\ all # {}
                               THEN all ELSE {NONE} :
              Step(widgets, [kind |-> "Generate Export", option |-> option, fields |-> fields,
                             single_field |-> single_field, include_ids |-> include_ids], fail)

Next ==
    \/ Connect
    \/ SelectDatabase
    \/ SelectCollection
    \/ SetItemsPerPage
    \/ ClosePopup
    \/ ShowCollectionStatistics
    \/ PreviousPage
    \/ NextPage
    \/ Search
    \/ AnalyzeField
    \/ GenerateExport

Spec == Init /\ [][Next]_vars

\* Analyze Field pressed with a field selected, every backend call succeeding.
AnalyzeFieldExact ==
    /\ screen = Idle
    /\ \E field_to_analyze \in SampleFields \cup {"_id"} :
          screen' = [result |-> analyze_field(store["db"]["coll"], field_to_analyze)]
    /\ UNCHANGED <<store, program, widgets, session, report>>

AnalysisNext == AnalyzeFieldExact

AnalysisSpec == AnalysisInit /\ [][AnalysisNext]_vars

----------------------------------------------------------------------------
(* The two scripts side by side: both run against the same store and the    *)
(* user performs the same action in both.  session, widgets and screen hold *)
(* one value per program; the backend is available.  Closing and reopening  *)
(* the statistics popup exists in updated_pipeline.py only and runs that    *)
(* script alone.                                                            *)

Programs == {"updated_pipeline", "mongo"}

PairInit ==
    /\ store = InitialStore
    /\ program = "both"
    /\ widgets = [p \in Programs |-> InitialWidgets]
    /\ session = [p \in Programs |-> InitialSession(p)]
    /\ screen = [p \in Programs |-> [BlankScreen EXCEPT !.info = {ConnectPrompt}]]
    /\ report = NotCalled

\* The widget values after the user set widget `key` to `value` (no widget
\* when key is NONE).
SetWidget(w, key, value) == IF key = NONE THEN w ELSE [w EXCEPT ![key] = value]

RenderedInBoth(label) == \A p \in Programs : label \in screen[p].rendered

CurrentCollectionOf(p) == store[session[p].db_selected][session[p].collection_selected]

\* The same user action in both programs, and the run it triggers in each.
PairStep(key, value, ev) ==
    \E u \in {RunOf("updated_pipeline", session["updated_pipeline"],
                    SetWidget(widgets["updated_pipeline"], key, value), ev, "none")},
       m \in {RunOf("mongo", session["mongo"],
                    SetWidget(widgets["mongo"], key, value), ev, "none")} :
        /\ session' = [updated_pipeline |-> u.s, mongo |-> m.s]
        /\ widgets' = [updated_pipeline |-> u.w, mongo |-> m.w]
        /\ screen' = [updated_pipeline |-> u.out, mongo |-> m.out]
        /\ report' = u.call
        /\ UNCHANGED <<store, program>>

\* An action on the statistics popup: a run of updated_pipeline.py alone.
PopupStep(ev) ==
    \E u \in {RunOf("updated_pipeline", session["updated_pipeline"],
                    widgets["updated_pipeline"], ev, "none")} :
        /\ session' = [session EXCEPT !["updated_pipeline"] = u.s]
        /\ widgets' = [widgets EXCEPT !["updated_pipeline"] = u.w]
        /\ screen' = [screen EXCEPT !["updated_pipeline"] = u.out]
        /\ report' = u.call
        /\ UNCHANGED <<store, program>>

BothConnect ==
    /\ RenderedInBoth("Connect")
    /\ \E ok \in BOOLEAN : PairStep(NONE, NONE, [kind |-> "Connect", ok |-> ok])

BothSelectDatabase ==
    /\ RenderedInBoth("Select Database")
    /\ \E i \in 1..Len(DatabaseList) :
          /\ \A p \in Programs : DatabaseList[i] # widgets[p].db
          /\ PairStep("db", DatabaseList[i], NoEvent)

BothSelectCollection ==
    /\ RenderedInBoth("Select Collection")
    /\ widgets["updated_pipeline"].coll_options = widgets["mongo"].coll_options
    /\ \E i \in 1..Len(widgets["mongo"].coll_options) :
          /\ \A p \in Programs : widgets[p].coll_options[i] # widgets[p].collection
          /\ PairStep("collection", widgets["mongo"].coll_options[i], NoEvent)

BothSetItemsPerPage ==
    /\ RenderedInBoth("Items per page")
    /\ \E n \in SliderChoices :
          /\ \A p \in Programs : n # widgets[p].slider
          /\ PairStep("slider", n, NoEvent)

BothPreviousPage ==
    /\ RenderedInBoth("Previous Page")
    /\ PairStep(NONE, NONE, [kind |-> "Previous Page"])

BothNextPage ==
    /\ RenderedInBoth("Next Page")
    /\ PairStep(NONE, NONE, [kind |-> "Next Page"])

BothSearch ==
    /\ RenderedInBoth("Search")
    /\ CurrentCollectionOf("updated_pipeline") = CurrentCollectionOf("mongo")
    /\ \E field \in DOMAIN sample_doc_of(CurrentCollectionOf("mongo")), type \in SearchTypes,
          value \in SearchValues :
          PairStep(NONE, NONE,
                   [kind |-> "Search", field |-> field, type |-> type, value |-> value])

BothAnalyzeField ==
    /\ RenderedInBoth("Analyze Field")
    /\ CurrentCollectionOf("updated_pipeline") = CurrentCollectionOf("mongo")
    /\ \E field \in analysis_fields(CurrentCollectionOf("mongo")) :
          PairStep(NONE, NONE, [kind |-> "Analyze Field", field |-> field])

BothGenerateExport ==
    /\ RenderedInBoth("Generate Export")
    /\ CurrentCollectionOf("updated_pipeline") = CurrentCollectionOf("mongo")
    /\ LET all == IF has_sample_doc(CurrentCollectionOf("mongo"))
                  THEN DOMAIN sample_doc_of(CurrentCollectionOf("mongo")) ELSE {}
       IN  \E option \in ExportOptions :
           \E include_ids \in IF option = "Multiple fields (custom selection)"
                              THEN BOOLEAN ELSE {FALSE},
              fields \in IF option \in {"Selected fields", "Multiple fields (custom selection)"}
                         THEN {{}} \cup {{f} : f \in all} ELSE {{}},
              single_field \in IF option \in {"Single field (all values)",
                                              "Single field (unique values only)"} /\ all # {}
                               THEN all ELSE {NONE} :
              PairStep(NONE, NONE,
                       [kind |-> "Generate Export", option |-> option, fields |-> fields,
                        single_field |-> single_field, include_ids |-> include_ids])

PopupClose ==
    /\ "Close" \in screen["updated_pipeline"].rendered
    /\ PopupStep([kind |-> "Close"])

PopupShow ==
    /\ "Show Collection Statistics" \in screen["updated_pipeline"].rendered
    /\ PopupStep([kind |-> "Show Collection Statistics"])

PairNext ==
    \/ BothConnect
    \/ BothSelectDatabase
    \/ BothSelectCollection
    \/ BothSetItemsPerPage
    \/ BothPreviousPage
    \/ BothNextPage
    \/ BothSearch
    \/ BothAnalyzeField
    \/ BothGenerateExport
    \/ PopupClose
    \/ PopupShow

PairSpec == PairInit /\ [][PairNext]_vars

----------------------------------------------------------------------------
(* Claims about get_detailed_collection_stats, checked under StatsSpec.     *)

TheCollection == store["db"]["coll"]
TheDocs == TheCollection.docs
Returned == Called(report) /\ ~report.raised

\* The per-field mappings of a report; a report of an empty sample has none of
\* these keys, and its readers take the missing key as empty (lines 314, 349,
\* 372, 394).
PerFieldMappings == {"field_coverage", "field_types", "value_distributions", "distinct_counts"}
Mapping(stats, name) == Get(stats, name, <<>>)

\* The field names that occur in some document of the collection.
KeysOfDocs == {f \in SampleFields \cup {"_id"} : \E i \in 1..Len(TheDocs) : f \in DOMAIN TheDocs[i]}

\* The metrics of each collstats reply, in hundredths, as Python's
\* round(x / 2**20, 2) and round(x / 1024, 2) give them.
ExpectedMetrics ==
    CASE TheCollection.collstats = TypicalCollStats ->
            [size_mb |-> 150, avg_doc_size_kb |-> 150, storage_size_mb |-> 0,
             index_size_mb |-> 2, index_count |-> 1]
      [] TheCollection.collstats = EmptyCollStats ->
            [size_mb |-> 0, avg_doc_size_kb |-> 0, storage_size_mb |-> 0,
             index_size_mb |-> 0, index_count |-> 1]
      [] TheCollection.collstats = TieCollStats ->
            [size_mb |-> 550, avg_doc_size_kb |-> 100, storage_size_mb |-> 62,
             index_size_mb |-> 4, index_count |-> 2]
      [] TheCollection.collstats = NoCollStats ->
            [size_mb |-> 0, avg_doc_size_kb |-> 0, storage_size_mb |-> 0,
             index_size_mb |-> 0, index_count |-> 0]
      [] OTHER ->
            LET has(k) == k \in DOMAIN TheCollection.collstats
            IN  [size_mb |-> IF has("size") THEN 550 ELSE 0,
                 avg_doc_size_kb |-> IF has("avgObjSize") THEN 100 ELSE 0,
                 storage_size_mb |-> IF has("storageSize") THEN 62 ELSE 0,
                 index_size_mb |-> IF has("totalIndexSize") THEN 4 ELSE 0,
                 index_count |-> IF has("indexSizes") THEN 2 ELSE 0]

\* C5: for an empty collection the function raises nothing and returns a report
\* with document count 0, the size metrics of the store's reply, field count 0
\* (as the report's readers read it) and no field report in any mapping.
C5_EmptyCollectionReport ==
    (Called(report) /\ TheDocs = <<>>) =>
        /\ ~report.raised
        /\ report.value.doc_count = 0
        /\ \A m \in DOMAIN ExpectedMetrics : report.value[m] = ExpectedMetrics[m]
        /\ Get(report.value, "field_count", 0) = 0
        /\ \A m \in PerFieldMappings : DOMAIN Mapping(report.value, m) = {}

C5_Witness ==
    Returned /\ TheDocs = <<>> /\ TheCollection.collstats = TieCollStats

\* C6: in a report of a non-empty sample every reported field has
\* 0 <= coverage_pct <= 100 and a presence count of at most the sample size,
\* and the coverage quotient's divisor, the sample size, is not 0.
C6_CoverageBounds ==
    (Returned /\ TheDocs # <<>>) =>
        \A f \in DOMAIN Mapping(report.value, "field_coverage") :
            LET e == report.value.field_coverage[f]
            IN  /\ e.coverage_pct.den > 0
                /\ 0 <= e.coverage_pct.num
                /\ e.coverage_pct.num <= 100 * e.coverage_pct.den
                /\ 0 <= e.count
                /\ e.count <= Len(TheDocs)

C6_Witness ==
    /\ Returned /\ Len(TheDocs) = 3
    /\ "a" \in DOMAIN Mapping(report.value, "field_coverage")
    /\ "b" \in DOMAIN Mapping(report.value, "field_coverage")
    /\ report.value.field_coverage["a"].coverage_pct = [num |-> 300, den |-> 3]
    /\ report.value.field_coverage["b"].count = 1

\* C7: _id is a key of none of the report's per-field mappings.
C7_NoIdKey ==
    Returned => \A m \in PerFieldMappings : "_id" \notin DOMAIN Mapping(report.value, m)

\* C8: the fields that have a coverage entry and a distinct-count entry are
\* exactly the keys that occur in the sampled documents, minus _id.
C8_ReportedFieldsAreUnion ==
    Returned =>
        /\ DOMAIN Mapping(report.value, "field_coverage") = KeysOfDocs \ {"_id"}
        /\ DOMAIN Mapping(report.value, "distinct_counts") = KeysOfDocs \ {"_id"}

C8_Witness ==
    /\ Returned /\ Len(TheDocs) = 3
    /\ "b" \in DOMAIN TheDocs[2] /\ "b" \notin DOMAIN TheDocs[1] /\ "b" \notin DOMAIN TheDocs[3]
    /\ "b" \in DOMAIN report.value.field_coverage
    /\ "c" \notin KeysOfDocs /\ "c" \notin DOMAIN report.value.field_coverage

\* C9: when the documents carry exactly the fields a, b and c besides their
\* _id, the report's field count is 3.
C9_FieldCountThree ==
    (Returned /\ KeysOfDocs = {"_id", "a", "b", "c"}) => report.value.field_count = 3

\* C10: a field has a frequency table only when all its sampled values are
\* scalar, so no bucket of a table is the string form of a dict or a list.
C10_NoCompositeBucket ==
    Returned =>
        \A f \in DOMAIN Mapping(report.value, "value_distributions") :
            \A i \in 1..Len(TheDocs) :
                f \in DOMAIN TheDocs[i] => ~isinstance_dict_list(TheDocs[i][f])

\* The documents the report is computed from: the first SampleLimit ones.
TheSample == IF Len(TheDocs) <= SampleLimit THEN TheDocs ELSE SubSeq(TheDocs, 1, SampleLimit)

\* The positions of the sample where field f is present, and among them those
\* where its value is composite (a dict or a list) or scalar.
Having(f) == {i \in 1..Len(TheSample) : f \in DOMAIN TheSample[i]}
Composite(f) == {i \in Having(f) : TheSample[i][f].t \in {"dict", "list"}}
Scalar(f) == Having(f) \ Composite(f)

HasTable(f) ==
    /\ f \in DOMAIN Mapping(report.value, "value_distributions")
    /\ report.value.value_distributions[f] # <<>>

\* C11: a field that is composite in some sampled documents and scalar in
\* others has distinct count 0 and no (or an empty) frequency table.
C11_MixedFieldHasNoStatistics ==
    Returned =>
        \A f \in DOMAIN Mapping(report.value, "distinct_counts") :
            (Composite(f) # {} /\ Scalar(f) # {}) =>
                /\ report.value.distinct_counts[f] = 0
                /\ ~HasTable(f)

\* C12: a field whose sampled values are all composite has distinct count
\* exactly 0 and no frequency-table entry.
C12_CompositeFieldHasNoStatistics ==
    Returned =>
        \A f \in SampleFields :
            (Having(f) # {} /\ Scalar(f) = {}) =>
                /\ f \in DOMAIN Mapping(report.value, "distinct_counts")
                /\ report.value.distinct_counts[f] = 0
                /\ f \notin DOMAIN Mapping(report.value, "value_distributions")

\* A sample of 100 documents whose field a is a list in each, and a report
\* that counts no distinct value for it.
C12_Witness ==
    /\ Returned
    /\ Len(TheDocs) = 130
    /\ Cardinality(Composite("a")) = SampleLimit
    /\ TheSample[1]["a"] = EmptyList
    /\ report.value.distinct_counts["a"] = 0
    /\ report.value.field_coverage["a"].count = SampleLimit

\* The sampled values of field f, in sample order; the number of members of
\* a sequence that equal x, and the position of the first of them.
Column(f) ==
    LET having == SelectSeq(TheSample, LAMBDA doc : f \in DOMAIN doc)
    IN  [i \in 1..Len(having) |-> having[i][f]]
CountIn(seq, x) == Cardinality({i \in 1..Len(seq) : seq[i] = x})
FirstIn(seq, x) == CHOOSE i \in 1..Len(seq) : seq[i] = x /\ \A j \in 1..(i - 1) : seq[j] # x

\* The string forms of the values of a column, and their type names.
FormsOf(column) == [i \in 1..Len(column) |-> str(column[i])]
TypesOf(column) == [i \in 1..Len(column) |-> column[i].t]
Range(seq) == {seq[i] : i \in 1..Len(seq)}

\* C13: a frequency table has min(10, number of distinct string forms of the
\* field's sampled values) entries, in descending order of count, entries of
\* equal count in first-encountered order, and no omitted form has a higher
\* count than a kept one.
C13_TableIsTopTen ==
    Returned =>
        \A f \in DOMAIN Mapping(report.value, "value_distributions") :
            LET table == report.value.value_distributions[f]
                kept == {table[i][1] : i \in 1..Len(table)}
                forms == FormsOf(Column(f))
                distinct_forms == Cardinality(Range(forms))
            IN  /\ Len(table) = IF distinct_forms < 10 THEN distinct_forms ELSE 10
                /\ Cardinality(kept) = Len(table)
                /\ \A i \in 1..Len(table) :
                      /\ table[i][1] \in Range(forms)
                      /\ table[i][2] = CountIn(forms, table[i][1])
                /\ \A i, j \in 1..Len(table) :
                      i < j => /\ table[i][2] >= table[j][2]
                               /\ table[i][2] = table[j][2] =>
                                     FirstIn(forms, table[i][1]) < FirstIn(forms, table[j][1])
                /\ \A s \in Range(forms) \ kept :
                      \A i \in 1..Len(table) : CountIn(forms, s) <= table[i][2]

\* The squares modulo 23 of 1..100: twelve forms, of which "6" (8 times, met
\* after "12" and "8") and "0" (4 times) are left out.
C13_Witness ==
    /\ Returned
    /\ Len(TheDocs) = 130
    /\ Cardinality(Range(FormsOf(Column("a")))) = 12
    /\ report.value.value_distributions["a"] =
          << <<"1", 9>>, <<"4", 9>>, <<"9", 9>>, <<"16", 9>>, <<"2", 9>>, <<"13", 9>>,
             <<"3", 9>>, <<"18", 9>>, <<"12", 8>>, <<"8", 8>> >>

\* The key of the collstats reply each metric of the report is read from.
MetricSource ==
    [size_mb |-> "size", avg_doc_size_kb |-> "avgObjSize", storage_size_mb |-> "storageSize",
     index_size_mb |-> "totalIndexSize", index_count |-> "indexSizes"]

\* C20: when the collstats reply lacks a metric the function raises nothing
\* and returns a report in which that metric is 0 (index count 0 for missing
\* indexSizes), the metrics that are present being reported as usual.
C20_MissingMetricIsZero ==
    Called(report) =>
        /\ ~report.raised
        /\ report.value.doc_count = Len(TheDocs)
        /\ \A m \in DOMAIN MetricSource :
              /\ MetricSource[m] \notin DOMAIN TheCollection.collstats => report.value[m] = 0
              /\ report.value[m] = ExpectedMetrics[m]

\* A reply with size and indexSizes only, for a collection of one document.
C20_Witness ==
    /\ Returned
    /\ Len(TheDocs) = 1
    /\ DOMAIN TheCollection.collstats = {"size", "indexSizes"}
    /\ report.value.size_mb = 550 /\ report.value.index_count = 2
    /\ report.value.avg_doc_size_kb = 0
    /\ report.value.storage_size_mb = 0
    /\ report.value.index_size_mb = 0
    /\ report.value.field_count = 2

\* C14: the primary type the popup shows for a field is the type with the
\* highest count among the field's sampled values and, among the types of
\* that count, the one met first in the sample.
C14_PrimaryTypeIsFirstMostFrequent ==
    Returned =>
        \A f \in DOMAIN screen.type_data :
            LET primary == screen.type_data[f].primary_type
                types == TypesOf(Column(f))
                primary_count == CountIn(types, primary)
            IN  /\ primary \in Range(types)
                /\ \A t \in Range(types) :
                      \/ CountIn(types, t) < primary_count
                      \/ /\ CountIn(types, t) = primary_count
                         /\ FirstIn(types, primary) <= FirstIn(types, t)

\* A text, then a dict, then an int: three types tie and the first one met,
\* str, is shown.
C14_Witness ==
    /\ Returned
    /\ Len(TheDocs) = 3
    /\ \A i \in 1..3 : "a" \in DOMAIN TheDocs[i]
    /\ TheDocs[1]["a"] = StrVal("1") /\ TheDocs[2]["a"] = EmptyDict /\ TheDocs[3]["a"] = IntVal(2)
    /\ screen.type_data["a"].primary_type = "str"

\* The values of a column that are scalar and not null.
NonNullScalars(column) ==
    {column[i] : i \in {j \in 1..Len(column) :
                           column[j].t \notin {"dict", "list"} /\ column[j] # None}}

\* C15: presence is key existence: a sampled document whose field is present
\* with value null counts in the field's presence count and coverage, and
\* null is one distinct scalar value (distinct count 1 when null is the only
\* sampled value).
C15_NullIsPresentAndDistinct ==
    Returned =>
        \A f \in SampleFields :
            LET column == Column(f)
            IN  column # <<>> =>
                    /\ report.value.field_coverage[f].count = Len(column)
                    /\ report.value.field_coverage[f].coverage_pct =
                          [num |-> Len(column) * 100, den |-> Len(TheSample)]
                    /\ None \in Range(column) =>
                          report.value.distinct_counts[f] =
                              Cardinality(NonNullScalars(column)) + 1

\* Field c is null in the first document and absent from the second: presence
\* count 1, coverage 50 %, one distinct value.
C15_Witness ==
    /\ Returned
    /\ Len(TheDocs) = 2
    /\ "c" \in DOMAIN TheDocs[1] /\ TheDocs[1]["c"] = None
    /\ "c" \notin DOMAIN TheDocs[2]
    /\ report.value.field_coverage["c"] =
          [count |-> 1, coverage_pct |-> [num |-> 100, den |-> 2]]
    /\ report.value.distinct_counts["c"] = 1

\* The type names of the values of a column whose string form is s.
TypesOfForm(column, s) == {column[i].t : i \in {j \in 1..Len(column) : str(column[j]) = s}}

\* C16: a frequency table counts each value under its string form: the values
\* of different types that share a form (the integer 1 and the text "1") are
\* one entry, whose count is the number of sampled values of that form,
\* whatever their types.
C16_SameFormSameBucket ==
    Returned =>
        \A f \in DOMAIN Mapping(report.value, "value_distributions") :
            LET table == report.value.value_distributions[f]
                forms == FormsOf(Column(f))
            IN  /\ \A i, j \in 1..Len(table) : table[i][1] = table[j][1] => i = j
                /\ \A i \in 1..Len(table) : table[i][2] = CountIn(forms, table[i][1])

\* Integers and texts alternate over 100 documents: "2" is the form of 25
\* texts and 25 integers, and so is "0".
C16_Witness ==
    /\ Returned
    /\ Len(TheDocs) = 100
    /\ TheDocs[1]["a"] = StrVal("2") /\ TheDocs[2]["a"] = IntVal(2)
    /\ TypesOfForm(Column("a"), "2") = {"int", "str"}
    /\ report.value.value_distributions["a"] = << <<"2", 50>>, <<"0", 50>> >>

\* The number of documents the report was computed from: every document has
\* an _id, whose types the report counts.
SampleSizeOf(stats) ==
    IF "field_types" \in DOMAIN stats /\ "_id" \in DOMAIN stats.field_types
    THEN stats.field_types["_id"][1][2] ELSE 0

\* The part of a report that is computed from the sample.
SamplePart(stats) ==
    [k \in DOMAIN stats \cap ({"field_count"} \cup PerFieldMappings) |-> stats[k]]

\* C17: the sample the report is computed from is the first min(100, size)
\* documents of the collection in natural order, whatever they hold: never
\* more than 100, never more than the collection.
C17_SampleIsPrefix ==
    Returned =>
        /\ SampleSizeOf(report.value) <= 100
        /\ SampleSizeOf(report.value) <= Len(TheDocs)
        /\ SampleSizeOf(report.value) = IF Len(TheDocs) < 100 THEN Len(TheDocs) ELSE 100
        /\ SamplePart(report.value) =
              field_analysis(SubSeq(TheDocs, 1, SampleSizeOf(report.value)))

\* 130 documents with a = 1, 2, ..., 130: the report counts 130 documents, and
\* 100 values of a, of which the table shows the first ten.
C17_Witness ==
    /\ Returned
    /\ Len(TheDocs) = 130
    /\ TheDocs[130]["a"] = IntVal(130)
    /\ report.value.doc_count = 130
    /\ SampleSizeOf(report.value) = 100
    /\ report.value.distinct_counts["a"] = 100
    /\ report.value.value_distributions["a"] =
          [i \in 1..10 |-> <<IntToStr(i), 1>>]

----------------------------------------------------------------------------
(* Claims about recomputation, checked under RecomputeSpec.                 *)

Recomputed == Called(report) /\ session # Idle

----------------------------------------------------------------------------
(* Claims about Analyze Field, checked under AnalysisSpec.                  *)

Analyzed == screen # Idle

\* The documents of the whole collection that have the key f.
HavingInCollection(f) == {i \in 1..Len(TheDocs) : f \in DOMAIN TheDocs[i]}

\* C19: Analyze Field is exact: the presence count is the number of documents
\* of the whole collection that have the key, also beyond the first 100; the
\* coverage is presence count / document count * 100, and 0 when the
\* collection has no document.
C19_AnalyzeFieldIsExact ==
    Analyzed =>
        LET f == screen.result.field
            presence == Cardinality(HavingInCollection(f))
        IN  /\ screen.result.field_count = presence
            /\ Len(TheDocs) > 0 =>
                  screen.result.coverage = [num |-> presence * 100, den |-> Len(TheDocs)]
            /\ Len(TheDocs) = 0 =>
                  /\ screen.result.coverage.num = 0
                  /\ screen.result.coverage.den # 0

\* The field a of a collection of 130 documents: 130 documents have it.
C19_Witness ==
    /\ Analyzed
    /\ Len(TheDocs) = 130
    /\ screen.result.field = "a"
    /\ screen.result.field_count = 130
    /\ screen.result.coverage = [num |-> 13000, den |-> 130]

\* The fields other than _id that occur in some sampled document.
FieldsOfSample == {f \in SampleFields : Column(f) # <<>>}

\* The sum of the counts of a counter.
RECURSIVE SumOfCounts(_)
SumOfCounts(counts) ==
    IF counts = <<>> THEN 0 ELSE Head(counts)[2] + SumOfCounts(Tail(counts))

\* C29: for every field other than _id, the counts of the field's type
\* histogram sum to the field's presence count, every category of the
\* histogram has a count of at least 1, and no category occurs twice.
C29_TypeHistogramSumsToPresence ==
    Returned =>
        \A f \in DOMAIN Mapping(report.value, "field_coverage") :
            LET histogram == report.value.field_types[f]
                types == TypesOf(Column(f))
            IN  /\ SumOfCounts(histogram) = report.value.field_coverage[f].count
                /\ SumOfCounts(histogram) = Len(types)
                /\ \A i \in 1..Len(histogram) :
                      /\ histogram[i][2] >= 1
                      /\ histogram[i][2] = CountIn(types, histogram[i][1])
                /\ \A i, j \in 1..Len(histogram) : histogram[i][1] = histogram[j][1] => i = j

\* Field a is an int in two documents and a text in a third.
C29_Witness ==
    /\ Returned
    /\ Len(TheDocs) = 3
    /\ "a" \in DOMAIN Mapping(report.value, "field_types")
    /\ report.value.field_types["a"] = <<<<"int", 2>>, <<"str", 1>>>>
    /\ report.value.field_coverage["a"].count = 3

\* C30: for every field whose sampled values are all scalar and have at most
\* 10 distinct string forms, the field's distinct count equals the number of
\* entries of its frequency table.
C30_DistinctCountIsTableLength ==
    Returned =>
        \A f \in FieldsOfSample :
            LET column == Column(f)
            IN  (/\ \A i \in 1..Len(column) : ~isinstance_dict_list(column[i])
                 /\ Cardinality(Range(FormsOf(column))) <= 10) =>
                    /\ f \in DOMAIN report.value.value_distributions
                    /\ report.value.distinct_counts[f] =
                          Len(report.value.value_distributions[f])

----------------------------------------------------------------------------
(* Claims about the scripts, checked under Spec.                            *)

\* The report of collection c of database d, every backend call succeeding.
ReportOf(d, c) == get_detailed_collection_stats(store[d], c, "none").value

HasCollection(d, c) == \E i \in 1..Len(CollectionList[d]) : CollectionList[d][i] = c

DatabaseNames == {DatabaseList[i] : i \in 1..Len(DatabaseList)}

\* C1: whenever the statistics popup is displayed under the header of
\* collection C while database D is selected, the report it shows is the
\* report of collection C of database D.
C1_PopupShowsSelectedCollection ==
    (program = "updated_pipeline" /\ screen.popup.shown) =>
        /\ HasCollection(session.db_selected, screen.popup.title)
        /\ screen.popup.stats = ReportOf(session.db_selected, screen.popup.title)

\* C2: the report held in session state is never the report of a collection
\* with another name than collection_selected (the previously selected
\* collection's report kept after a failed computation).
C2_StatsNamedBySelection ==
    (program = "updated_pipeline" /\ session.collection_stats # NoStats) =>
        \E d \in DatabaseNames :
            /\ HasCollection(d, session.collection_selected)
            /\ session.collection_stats = ReportOf(d, session.collection_selected)

\* C3: when count_documents, collstats or find raises inside
\* get_detailed_collection_stats, the call returns no report, the exception is
\* the backend's own, the run shows it as "Error: <message>", and the report
\* held in session state is no partial or defaulted one: it is None or the
\* full report of a collection of the store.
FullReports ==
    UNION {{ReportOf(d, CollectionList[d][i]) : i \in 1..Len(CollectionList[d])} :
              d \in DatabaseNames}

C3_FailureAbortsAndSurfaces ==
    (Called(report) /\ report.fail # "none") =>
        /\ report.raised
        /\ "value" \notin DOMAIN report
        /\ report.exc = BackendError(report.fail)
        /\ screen.error = "Error: " \o BackendError(report.fail)
        /\ ~screen.popup.shown
        /\ session.collection_stats \in FullReports \cup {NoStats}

C3_Witness ==
    /\ Called(report) /\ report.fail = "count_documents"
    /\ screen.error = "Error: count_documents: backend unavailable"
    /\ session.collection_stats # NoStats


\* C4: no step of either program modifies the backing store: the contents of
\* every collection are the same after the step as before it.
C4_StoreNeverModified == [][store' = store]_vars

\* An export was generated by mongo.py from a non-empty collection, after
\* which the store still holds every document.
C4_Witness ==
    /\ program = "mongo"
    /\ screen.result.kind = "export"
    /\ screen.result.count > 0
    /\ store = InitialStore

\* A collection is selected and the script reached its main area.
CollectionSelected ==
    /\ session.client
    /\ session.collection_selected # NONE
    /\ HasCollection(session.db_selected, session.collection_selected)

\* ceil(document count / items_per_page) of the selected collection
TotalPages == total_pages(count_documents(CurrentCollection), session.items_per_page)

\* C25: on a selected non-empty collection pagination_page never exceeds the
\* total number of pages ceil(document count / items_per_page).
C25_PageWithinTotal ==
    (CollectionSelected /\ CurrentCollection.docs # <<>>) =>
        session.pagination_page <= TotalPages

\* C26: on every run that reaches the View Data tab with pagination_page > 1
\* the Previous Page control is rendered.
C26_PreviousPageOffered ==
    (CollectionSelected /\ screen.header # "" /\ screen.error = ""
        /\ session.pagination_page > 1) =>
        "Previous Page" \in screen.rendered

\* C27: pagination_page is at least 1 in every reachable state of both
\* programs, and every step from a state where it is 1 (Previous Page, Next
\* Page, a change of collection or of items per page) leaves it at least 1, so
\* the skip passed to find is never negative.
C27_PageAtLeastOne ==
    /\ session.pagination_page >= 1
    /\ [][/\ session'.pagination_page >= 1
          /\ (session'.pagination_page - 1) * session'.items_per_page >= 0]_vars

\* Page 1 of 2 of a non-empty collection is displayed by mongo.py, with the
\* Previous Page button offered.
C27_Witness ==
    /\ program = "mongo"
    /\ CollectionSelected
    /\ session.pagination_page = 1
    /\ screen.page_line = <<1, 2>>
    /\ "Previous Page" \in screen.rendered

\* C28: whenever the selection goes from one collection to a different one (a
\* different name, or the same name in another database), pagination_page is
\* 1 after the run.
C28_SwitchResetsPage ==
    [][(/\ CollectionSelected
        /\ CollectionSelected'
        /\ <<session'.db_selected, session'.collection_selected>> #
              <<session.db_selected, session.collection_selected>>) =>
          session'.pagination_page = 1]_vars

\* What a run shows when a backend operation was unavailable.
BackendErrors == {"Error: " \o BackendError(op) : op \in Failures \ {"none"}}

\* C21: on every run of updated_pipeline.py in which the selected collection
\* differs from the one selected on the previous run (whose report had been
\* computed), and in which no backend call fails, the popup is displayed in
\* that run and shows the report of the newly selected collection.
C21_PopupFollowsSelection ==
    [][(/\ program = "updated_pipeline"
        /\ CollectionSelected
        /\ CollectionSelected'
        /\ <<session'.db_selected, session'.collection_selected>> #
              <<session.db_selected, session.collection_selected>>
        /\ session.collection_stats # NoStats
        /\ screen'.error \notin BackendErrors) =>
          /\ screen'.popup.shown
          /\ screen'.popup.title = session'.collection_selected
          /\ screen'.popup.stats = ReportOf(session'.db_selected, session'.collection_selected)]_vars

\* C23: on every run of updated_pipeline.py that lists a page of documents of
\* the selected collection, with a report computed and the backend available,
\* the 'Page p of N'
\* line, the Next Page button and the buttons of the Search, Field Analysis and
\* Export tabs are rendered and no error is shown, whether the popup is
\* displayed or not.
C23_PopupStateLeavesTabsAlone ==
    (/\ program = "updated_pipeline"
     /\ CollectionSelected
     /\ screen.docs # <<>>
     /\ session.collection_stats # NoStats
     /\ screen.error \notin BackendErrors) =>
        /\ screen.error = ""
        /\ screen.page_line = <<session.pagination_page, TotalPages>>
        /\ {"Next Page", "Search", "Analyze Field", "Generate Export"} \subseteq screen.rendered

\* C24: on every run of updated_pipeline.py that reaches the collection header
\* without displaying the popup, the Show Collection Statistics button is
\* rendered.
C24_ShowButtonOffered ==
    (/\ program = "updated_pipeline"
     /\ CollectionSelected
     /\ screen.header # ""
     /\ ~screen.popup.shown) =>
        "Show Collection Statistics" \in screen.rendered

----------------------------------------------------------------------------
(* Claims about the two scripts side by side, checked under PairSpec.       *)

\* The controls of the View Data tab and of the three other tabs.
SharedControls == {"Previous Page", "Next Page", "Search", "Analyze Field", "Generate Export"}

\* C22: after every sequence of the user actions both programs share, on the
\* same store, and whatever was done to the statistics popup, both programs
\* have the same pagination_page and render the same page of documents, the
\* same 'Page p of N' line, the same pagination controls and the same tabs.
C22_SameViewInBothPrograms ==
    /\ session["updated_pipeline"].pagination_page = session["mongo"].pagination_page
    /\ screen["updated_pipeline"].docs = screen["mongo"].docs
    /\ screen["updated_pipeline"].page_line = screen["mongo"].page_line
    /\ screen["updated_pipeline"].rendered \cap SharedControls =
          screen["mongo"].rendered \cap SharedControls

====
